---- MODULE Spec2Model ----
(***************************************************************************)
(* Payment gateway: POST /api/payments validates a card payment, asks the  *)
(* acquiring bank for a decision, stores the outcome and answers; GET      *)
(* /api/payments/{id} looks a stored payment up.                           *)
(*                                                                         *)
(* Go strings are sequences of one-character strings, a *domain.Payment is *)
(* an index into heap, an error is the chain of messages that errors.Is /  *)
(* errors.Unwrap walk (<<>> is nil), a uuid is a positive number and the   *)
(* empty string id is EmptyID.                                             *)
(***************************************************************************)
EXTENDS Integers, Sequences, FiniteSets, TLC

\* ------------------------------------------------------------------ bounds
NumThreads == 2
MaxPayments == 2

Threads == 1..NumThreads

\* --------------------------------------------------------------- constants
StatusAuthorized == "Authorized"
StatusDeclined == "Declined"
StatusRejected == "Rejected"

StatusOK == 200
StatusBadRequest == 400
StatusNotFound == 404
StatusInternalServerError == 500
StatusBadGateway == 502
StatusServiceUnavailable == 503

EmptyID == 0
Nil == 0
NoErr == <<>>

\* ----------------------------------------------------------------- strings
Digits == {"0", "1", "2", "3", "4", "5", "6", "7", "8", "9"}
Lower == <<"a", "b", "c", "d", "e", "f", "g", "h", "i", "j", "k", "l", "m",
           "n", "o", "p", "q", "r", "s", "t", "u", "v", "w", "x", "y", "z">>
Upper == <<"A", "B", "C", "D", "E", "F", "G", "H", "I", "J", "K", "L", "M",
           "N", "O", "P", "Q", "R", "S", "T", "U", "V", "W", "X", "Y", "Z">>

Range(s) == {s[i] : i \in 1..Len(s)}

ToUpperChar(c) ==
  IF \E i \in 1..Len(Lower) : Lower[i] = c
  THEN Upper[CHOOSE i \in 1..Len(Lower) : Lower[i] = c]
  ELSE c

ToUpper(s) == [i \in 1..Len(s) |-> ToUpperChar(s[i])]

Rep(c, n) == [i \in 1..n |-> c]

\* 2^64 - 1, the largest value strconv.ParseUint(s, 10, 64) accepts
MaxUint64Digits == <<"1", "8", "4", "4", "6", "7", "4", "4", "0", "7",
                     "3", "7", "0", "9", "5", "5", "1", "6", "1", "5">>

DigitVal(c) == CHOOSE n \in 0..9 : <<"0", "1", "2", "3", "4", "5", "6", "7", "8", "9">>[n + 1] = c

RECURSIVE StripZeros(_)
StripZeros(s) == IF s # <<>> /\ Head(s) = "0" THEN StripZeros(Tail(s)) ELSE s

RECURSIVE DigitsLeq(_, _)
DigitsLeq(a, b) ==
  IF a = <<>> THEN TRUE
  ELSE IF DigitVal(Head(a)) < DigitVal(Head(b)) THEN TRUE
  ELSE IF DigitVal(Head(a)) > DigitVal(Head(b)) THEN FALSE
  ELSE DigitsLeq(Tail(a), Tail(b))

FitsUint64(s) ==
  \/ Len(s) < Len(MaxUint64Digits)
  \/ Len(StripZeros(s)) < Len(MaxUint64Digits)
  \/ /\ Len(StripZeros(s)) = Len(MaxUint64Digits)
     /\ DigitsLeq(StripZeros(s), MaxUint64Digits)

isNumeric(s) == s # <<>> /\ Range(s) \subseteq Digits /\ FitsUint64(s)

\* ------------------------------------------------------------------ errors
\* one link of an error chain: its text, and what fmt.Errorf formatted into it
Link(msg, code, body) == [msg |-> msg, code |-> code, body |-> body]
Err(msg) == <<Link(msg, 0, "")>>
Wrap(msg, err) == <<Link(msg, 0, "")>> \o err
ErrorsIs(err, target) == \E i \in 1..Len(err) : SubSeq(err, i, Len(err)) = target

ErrCardNumberRequired == Err("card number is required")
ErrCardNumberInvalid == Err("card number must be between 14-19 digits")
ErrCardNumberNotNumeric == Err("card number must only contain numeric characters")
ErrCVVRequired == Err("CVV is required")
ErrCVVInvalid == Err("CVV must be 3-4 digits")
ErrCVVNotNumeric == Err("CVV must only contain numeric characters")
ErrExpiryMonthRequired == Err("expiry month is required")
ErrExpiryMonthInvalid == Err("expiry month must be between 1-12")
ErrExpiryYearRequired == Err("expiry year is required")
ErrExpiryDateInPast == Err("expiry date must be in the future")
ErrCurrencyRequired == Err("currency is required")
ErrCurrencyInvalid == Err("currency must be a valid 3-character ISO code (USD, GBP, EUR)")
ErrAmountInvalid == Err("amount must be a positive integer")
ErrPaymentNotFound == Err("payment not found")

\* -------------------------------------------------------------- domain.Card
\* The characters are looked at before the length.
validateCardNumberNumericFirst(c) ==
  IF c.Number = <<>> THEN ErrCardNumberRequired
  ELSE IF ~isNumeric(c.Number) THEN ErrCardNumberNotNumeric
  ELSE IF Len(c.Number) < 14 \/ Len(c.Number) > 19 THEN ErrCardNumberInvalid
  ELSE NoErr

validateCardNumber(c) ==
  IF c.Number = <<>> THEN ErrCardNumberRequired
  ELSE IF Len(c.Number) < 14 \/ Len(c.Number) > 19 THEN ErrCardNumberInvalid
  ELSE IF ~isNumeric(c.Number) THEN ErrCardNumberNotNumeric
  ELSE NoErr

validateExpiry(c, t) ==
  IF c.ExpiryMonth = 0 THEN ErrExpiryMonthRequired
  ELSE IF c.ExpiryMonth < 1 \/ c.ExpiryMonth > 12 THEN ErrExpiryMonthInvalid
  ELSE IF c.ExpiryYear = 0 THEN ErrExpiryYearRequired
  ELSE IF c.ExpiryYear < t.year THEN ErrExpiryDateInPast
  ELSE IF c.ExpiryYear = t.year /\ c.ExpiryMonth < t.month THEN ErrExpiryDateInPast
  ELSE NoErr

validateCVV(c) ==
  IF c.CVV = <<>> THEN ErrCVVRequired
  ELSE IF Len(c.CVV) < 3 \/ Len(c.CVV) > 4 THEN ErrCVVInvalid
  ELSE IF ~isNumeric(c.CVV) THEN ErrCVVNotNumeric
  ELSE NoErr

\* The CVV is looked at before the expiry.
CardValidateCVVFirst(c, t) ==
  LET numberErr == validateCardNumber(c)
      expiryErr == validateExpiry(c, t)
      cvvErr == validateCVV(c)
  IN
  IF numberErr # NoErr THEN numberErr
  ELSE IF cvvErr # NoErr THEN cvvErr
  ELSE IF expiryErr # NoErr THEN expiryErr
  ELSE NoErr

CardValidate(c, t) ==
  LET numberErr == validateCardNumber(c)
      expiryErr == validateExpiry(c, t)
      cvvErr == validateCVV(c)
  IN
  IF numberErr # NoErr THEN numberErr
  ELSE IF expiryErr # NoErr THEN expiryErr
  ELSE IF cvvErr # NoErr THEN cvvErr
  ELSE NoErr

\* The whole number is given instead of its end.
GetAllDigits(c) == c.Number

GetLastFourDigits(c) ==
  IF Len(c.Number) < 4 THEN c.Number
  ELSE SubSeq(c.Number, Len(c.Number) - 3, Len(c.Number))

\* ----------------------------------------------------------- domain.Payment
supportedCurrencies == {<<"U", "S", "D">>, <<"G", "B", "P">>, <<"E", "U", "R">>}

\* validateCurrency, validateAmount and Validate return the error and the
\* payment as the call leaves it (the receiver is a pointer).
\* The upper-case form is tested and not stored.
validateCurrencyNotStored(p) ==
  IF p.Currency = <<>> THEN [err |-> ErrCurrencyRequired, p |-> p]
  ELSE IF Len(ToUpper(p.Currency)) # 3 THEN [err |-> ErrCurrencyInvalid, p |-> p]
  ELSE IF ToUpper(p.Currency) \notin supportedCurrencies THEN [err |-> ErrCurrencyInvalid, p |-> p]
  ELSE [err |-> NoErr, p |-> p]

validateCurrency(p) ==
  IF p.Currency = <<>> THEN [err |-> ErrCurrencyRequired, p |-> p]
  ELSE IF Len(ToUpper(p.Currency)) # 3 THEN [err |-> ErrCurrencyInvalid, p |-> p]
  ELSE IF ToUpper(p.Currency) \notin supportedCurrencies THEN [err |-> ErrCurrencyInvalid, p |-> p]
  ELSE [err |-> NoErr, p |-> [p EXCEPT !.Currency = ToUpper(p.Currency)]]

\* Only a negative amount is refused.
validateAmountNegativeOnly(p) == IF p.Amount < 0 THEN ErrAmountInvalid ELSE NoErr

validateAmount(p) == IF p.Amount <= 0 THEN ErrAmountInvalid ELSE NoErr

PaymentValidate(p, t) ==
  LET cardErr == CardValidate(p.Card, t)
      currency == validateCurrency(p)
      amountErr == validateAmount(currency.p)
  IN
  IF cardErr # NoErr THEN [err |-> cardErr, p |-> p]
  ELSE IF currency.err # NoErr THEN currency
  ELSE IF amountErr # NoErr THEN [err |-> amountErr, p |-> currency.p]
  ELSE [err |-> NoErr, p |-> currency.p]

\* NewPayment: the payment pointer is nil (payment = Nil) on error
NewPayment(card, currency, amount, t) ==
  LET fresh == [ID |-> EmptyID, Card |-> card, Currency |-> currency,
                Amount |-> amount, Status |-> StatusRejected]
      validated == PaymentValidate(fresh, t)
  IN
  IF validated.err # NoErr THEN [ok |-> FALSE, p |-> fresh, err |-> validated.err]
  ELSE [ok |-> TRUE, p |-> validated.p, err |-> NoErr]

SetAuthorized(p) == [p EXCEPT !.Status = StatusAuthorized]

\* SetDeclined assigns the status of its neighbour SetRejected.
SetDeclinedAsRejected(p) == [p EXCEPT !.Status = StatusRejected]

SetDeclined(p) == [p EXCEPT !.Status = StatusDeclined]
SetRejected(p) == [p EXCEPT !.Status = StatusRejected]

\* ------------------------------------------------------ client.HTTPBankClient
\* What the bank's side of the connection does with one request.
BodyAuthorized == [decodable |-> TRUE, authorized |-> TRUE, raw |-> "{authorized:true}"]
BodyDeclined == [decodable |-> TRUE, authorized |-> FALSE, raw |-> "{authorized:false}"]
BodyInvalid == [decodable |-> FALSE, authorized |-> FALSE, raw |-> "invalid json"]

\* kind: what httpClient.Do met ("http": a response with a status line came);
\* read: what io.ReadAll of the response body met.  The client's Timeout runs
\* over the whole exchange, the reading of the body included.
BankReplies ==
  {[kind |-> "http", code |-> StatusOK, body |-> b, read |-> "ok"] :
     b \in {BodyAuthorized, BodyDeclined, BodyInvalid}}
  \cup {[kind |-> "http", code |-> k, body |-> BodyInvalid, read |-> "ok"] :
          k \in {StatusBadRequest, StatusServiceUnavailable, StatusInternalServerError}}
  \cup {[kind |-> "http", code |-> StatusOK, body |-> BodyDeclined, read |-> "timeout"]}
  \cup {[kind |-> k, code |-> 0, body |-> BodyInvalid, read |-> "ok"] : k \in {"refused", "timeout"}}

\* A *BankResponse: isNil for the nil pointer
NoBankResponse == [isNil |-> TRUE, Authorized |-> FALSE]

\* fmt.Sprintf("%d", n)
RECURSIVE Itoa(_)
Itoa(n) ==
  IF n < 0 THEN <<"-">> \o Itoa(-n)
  ELSE IF n < 10 THEN <<<<"0", "1", "2", "3", "4", "5", "6", "7", "8", "9">>[n + 1]>>
  ELSE Itoa(n \div 10) \o Itoa(n % 10)

\* fmt.Sprintf("%02d", n): zeros after the sign up to a width of two
Sprintf02d(n) ==
  IF n < 0 THEN Itoa(n)
  ELSE IF Len(Itoa(n)) < 2 THEN <<"0">> \o Itoa(n)
  ELSE Itoa(n)

\* The month is written as it is, without the zero.
convertTobankRequestUnpadded(p) ==
  [CardNumber |-> p.Card.Number,
   ExpiryDate |-> Itoa(p.Card.ExpiryMonth) \o <<"/">> \o Itoa(p.Card.ExpiryYear),
   Currency |-> p.Currency, Amount |-> p.Amount, CVV |-> p.Card.CVV]

convertTobankRequest(p) ==
  [CardNumber |-> p.Card.Number,
   ExpiryDate |-> Sprintf02d(p.Card.ExpiryMonth) \o <<"/">> \o Itoa(p.Card.ExpiryYear),
   Currency |-> p.Currency, Amount |-> p.Amount, CVV |-> p.Card.CVV]

\* An exchange that timed out is taken for the bank's refusal.
BankProcessPaymentTimeoutDeclines(reply) ==
  IF reply.kind = "timeout" \/ (reply.kind = "http" /\ reply.read = "timeout")
  THEN [resp |-> [isNil |-> FALSE, Authorized |-> FALSE], err |-> NoErr]
  ELSE IF reply.kind # "http"
  THEN [resp |-> NoBankResponse,
        err |-> Wrap("failed to send request to bank", Err(reply.kind))]
  ELSE IF reply.read # "ok"
  THEN [resp |-> NoBankResponse,
        err |-> Wrap("failed to read response body", Err(reply.read))]
  ELSE IF reply.code = StatusOK
  THEN IF reply.body.decodable
       THEN [resp |-> [isNil |-> FALSE, Authorized |-> reply.body.authorized], err |-> NoErr]
       ELSE [resp |-> NoBankResponse,
             err |-> Wrap("failed to unmarshal bank response", Err("invalid character"))]
  ELSE IF reply.code = StatusBadRequest
  THEN [resp |-> NoBankResponse,
        err |-> <<Link("bank rejected request: %s", 0, reply.body.raw)>>]
  ELSE IF reply.code = StatusServiceUnavailable
  THEN [resp |-> NoBankResponse, err |-> Err("bank service unavailable")]
  ELSE [resp |-> NoBankResponse,
        err |-> <<Link("unexpected response from bank: %d - %s", reply.code, reply.body.raw)>>]

\* Every status 2xx is taken for a decision.
BankProcessPaymentAny2xx(reply) ==
  IF reply.kind # "http"
  THEN [resp |-> NoBankResponse,
        err |-> Wrap("failed to send request to bank", Err(reply.kind))]
  ELSE IF reply.read # "ok"
  THEN [resp |-> NoBankResponse,
        err |-> Wrap("failed to read response body", Err(reply.read))]
  ELSE IF reply.code \in 200..299
  THEN IF reply.body.decodable
       THEN [resp |-> [isNil |-> FALSE, Authorized |-> reply.body.authorized], err |-> NoErr]
       ELSE [resp |-> NoBankResponse,
             err |-> Wrap("failed to unmarshal bank response", Err("invalid character"))]
  ELSE IF reply.code = StatusBadRequest
  THEN [resp |-> NoBankResponse,
        err |-> <<Link("bank rejected request: %s", 0, reply.body.raw)>>]
  ELSE IF reply.code = StatusServiceUnavailable
  THEN [resp |-> NoBankResponse, err |-> Err("bank service unavailable")]
  ELSE [resp |-> NoBankResponse,
        err |-> <<Link("unexpected response from bank: %d - %s", reply.code, reply.body.raw)>>]

\* HTTPBankClient.ProcessPayment: (nil, err) is resp = NoBankResponse, err # NoErr
BankProcessPayment(reply) ==
  IF reply.kind # "http"
  THEN [resp |-> NoBankResponse,
        err |-> Wrap("failed to send request to bank", Err(reply.kind))]
  ELSE IF reply.read # "ok"
  THEN [resp |-> NoBankResponse,
        err |-> Wrap("failed to read response body", Err(reply.read))]
  ELSE IF reply.code = StatusOK
  THEN IF reply.body.decodable
       THEN [resp |-> [isNil |-> FALSE, Authorized |-> reply.body.authorized], err |-> NoErr]
       ELSE [resp |-> NoBankResponse,
             err |-> Wrap("failed to unmarshal bank response", Err("invalid character"))]
  ELSE IF reply.code = StatusBadRequest
  THEN [resp |-> NoBankResponse,
        err |-> <<Link("bank rejected request: %s", 0, reply.body.raw)>>]
  ELSE IF reply.code = StatusServiceUnavailable
  THEN [resp |-> NoBankResponse, err |-> Err("bank service unavailable")]
  ELSE [resp |-> NoBankResponse,
        err |-> <<Link("unexpected response from bank: %d - %s", reply.code, reply.body.raw)>>]

\* ----------------------------------------------------------- models (DTOs)
FromDomainPayment(p) ==
  [ID |-> p.ID, Status |-> p.Status, CardNumberLastFour |-> GetLastFourDigits(p.Card),
   ExpiryMonth |-> p.Card.ExpiryMonth, ExpiryYear |-> p.Card.ExpiryYear,
   Currency |-> p.Currency, Amount |-> p.Amount]

ToGetPaymentResponse(p) ==
  [ID |-> p.ID, Status |-> p.Status, CardNumberLastFour |-> GetLastFourDigits(p.Card),
   ExpiryMonth |-> p.Card.ExpiryMonth, ExpiryYear |-> p.Card.ExpiryYear,
   Currency |-> p.Currency, Amount |-> p.Amount]

ToDomainPayment(req, t) ==
  NewPayment([Number |-> req.CardNumber, ExpiryMonth |-> req.ExpiryMonth,
              ExpiryYear |-> req.ExpiryYear, CVV |-> req.CVV],
             req.Currency, req.Amount, t)

\* ------------------------------------------------------------------- state
VARIABLES
  now,       \* time.Now() as (year, month)
  heap,      \* the domain.Payment objects allocated so far; a pointer is an index
  payments,  \* PaymentsRepository.payments: id -> pointer
  mu,        \* PaymentsRepository.mu: the writer holding it (0: none), the writer
             \* waiting for the readers to leave, and the readers
  uuids,     \* how many identifiers uuid.New() has handed out
  call,      \* per request goroutine: where it is, what it was given (arg), its
             \* locals, and what the bank client (with the bank's reply) and
             \* the repository returned to it
  last,      \* the call that returned in the step that led here (IdleCall: none
             \* did): what it was given, what it returned, the response written
  received   \* the 200 responses to POST that the callers hold, by id

vars == <<now, heap, payments, mu, uuids, call, last, received>>

Clock == {[year |-> 2026, month |-> 11]}

CardA == <<"2", "2", "2", "2", "4", "0", "5", "3", "4", "3", "2", "4", "8", "8", "7", "7">>
CardB == Rep("4", 10) \o <<"8", "8", "7", "7">>

\* The request bodies the callers send, for the clock value t.
PostRequests(t) ==
  { [malformed |-> FALSE, CardNumber |-> CardA, ExpiryMonth |-> 12, ExpiryYear |-> t.year + 1,
     Currency |-> <<"G", "B", "P">>, Amount |-> 100, CVV |-> <<"1", "2", "3">>],
    [malformed |-> FALSE, CardNumber |-> CardB, ExpiryMonth |-> t.month, ExpiryYear |-> t.year,
     Currency |-> <<"u", "s", "d">>, Amount |-> 1, CVV |-> <<"4", "5", "6", "7">>],
    [malformed |-> FALSE, CardNumber |-> CardA, ExpiryMonth |-> 12, ExpiryYear |-> t.year + 1,
     Currency |-> <<"G", "B", "P">>, Amount |-> 0, CVV |-> <<"1", "2", "3">>],
    [malformed |-> TRUE, CardNumber |-> <<>>, ExpiryMonth |-> 0, ExpiryYear |-> 0,
     Currency |-> <<>>, Amount |-> 0, CVV |-> <<>>] }

\* The ids a GET may ask for: the empty one, every id that can have been
\* handed out, and one that never is.
GetIDs == 0..(MaxPayments + 1)

NoResponse == [code |-> 0, error |-> "", body |-> <<>>]
NoReturn == [payment |-> Nil, err |-> NoErr]

IdleCall ==
  [pc |-> "idle", op |-> "none", arg |-> <<>>, ctx |-> "live", ref |-> Nil, id |-> EmptyID,
   bank |-> <<>>, save |-> <<>>, find |-> <<>>, ret |-> NoReturn, http |-> NoResponse]

Init ==
  /\ now \in Clock
  /\ heap = <<>>
  /\ payments = <<>>
  /\ mu = [writer |-> 0, pending |-> {}, readers |-> {}]
  /\ uuids = 0
  /\ call = [t \in Threads |-> IdleCall]
  /\ last = IdleCall
  /\ received = <<>>

\* ------------------------------------------------------------ handlers: DTOs
respondWithError(code, message) == [code |-> code, error |-> message, body |-> <<>>]
respondWithJSON(code, payload) == [code |-> code, error |-> "", body |-> <<payload>>]

ErrorText(err) == err[1].msg

\* ----------------------------------------------------- service.PaymentService
\* One identifier, made once, is handed out every time.
UUIDOnce(n) == 1

\* uuid.New(): the n-th identifier handed out differs from the n before it
UUIDNew(n) == n + 1

\* With the id, the CVV is cleared.
ProcessPaymentAssignScrubbed(p, uuid) == [p EXCEPT !.ID = uuid, !.Card.CVV = <<>>]

\* ProcessPayment up to the bank call: payment.ID = uuid.New().String()
ProcessPaymentAssign(p, uuid) == [p EXCEPT !.ID = uuid]

\* A bank error is taken for a decline and the payment is stored.
ProcessPaymentBankDeclineOnError(c, p, res) ==
  [c |-> [c EXCEPT !.pc = "save"],
   p |-> IF res.resp.Authorized THEN SetAuthorized(p) ELSE SetDeclined(p)]

\* The test of the authorized flag is inverted.
ProcessPaymentBankInverted(c, p, res) ==
  IF res.err # NoErr
  THEN [c |-> [c EXCEPT !.pc = "return",
                        !.ret = [payment |-> Nil,
                                 err |-> Wrap("failed to process payment with bank", res.err)]],
        p |-> p]
  ELSE [c |-> [c EXCEPT !.pc = "save"],
        p |-> IF res.resp.Authorized THEN SetDeclined(p) ELSE SetAuthorized(p)]

\* A failed bank call is made once more.
ProcessPaymentBankRetry(c, p, res) ==
  IF res.err # NoErr /\ Len(c.bank) < 2
  THEN [c |-> c, p |-> p]
  ELSE IF res.err # NoErr
  THEN [c |-> [c EXCEPT !.pc = "return",
                        !.ret = [payment |-> Nil,
                                 err |-> Wrap("failed to process payment with bank", res.err)]],
        p |-> p]
  ELSE [c |-> [c EXCEPT !.pc = "save"],
        p |-> IF res.resp.Authorized THEN SetAuthorized(p) ELSE SetDeclined(p)]

\* ProcessPayment from the bank client's return to the call of Save: the
\* goroutine's locals c and the payment p as they are afterwards
ProcessPaymentBank(c, p, res) ==
  IF res.err # NoErr
  THEN [c |-> [c EXCEPT !.pc = "return",
                        !.ret = [payment |-> Nil,
                                 err |-> Wrap("failed to process payment with bank", res.err)]],
        p |-> p]
  ELSE [c |-> [c EXCEPT !.pc = "save"],
        p |-> IF res.resp.Authorized THEN SetAuthorized(p) ELSE SetDeclined(p)]

\* A failed Save is tried once more.
ProcessPaymentSavedRetry(c, p, err) ==
  IF err # NoErr /\ Len(c.save) < 2
  THEN [c |-> [c EXCEPT !.pc = "save"], p |-> p]
  ELSE IF err # NoErr
  THEN [c |-> [c EXCEPT !.pc = "return",
                        !.ret = [payment |-> Nil, err |-> Wrap("failed to save payment", err)]],
        p |-> p]
  ELSE [c |-> [c EXCEPT !.pc = "return", !.ret = [payment |-> c.ref, err |-> NoErr]],
        p |-> p]

\* A payment that could not be saved is marked Rejected.
ProcessPaymentSavedReject(c, p, err) ==
  IF err # NoErr
  THEN [c |-> [c EXCEPT !.pc = "return",
                        !.ret = [payment |-> Nil, err |-> Wrap("failed to save payment", err)]],
        p |-> SetRejected(p)]
  ELSE [c |-> [c EXCEPT !.pc = "return", !.ret = [payment |-> c.ref, err |-> NoErr]],
        p |-> p]

\* ProcessPayment from the return of Save to its own return
ProcessPaymentSaved(c, p, err) ==
  IF err # NoErr
  THEN [c |-> [c EXCEPT !.pc = "return",
                        !.ret = [payment |-> Nil, err |-> Wrap("failed to save payment", err)]],
        p |-> p]
  ELSE [c |-> [c EXCEPT !.pc = "return", !.ret = [payment |-> c.ref, err |-> NoErr]],
        p |-> p]

\* The not-found error is wrapped in a message of the service.
GetPaymentWrapped(c, found, err) ==
  IF err # NoErr
  THEN [c EXCEPT !.pc = "return", !.ret = [payment |-> Nil, err |-> err]]
  ELSE IF found = Nil
  THEN [c EXCEPT !.pc = "return",
                 !.ret = [payment |-> Nil, err |-> Wrap("failed to get payment", ErrPaymentNotFound)]]
  ELSE [c EXCEPT !.pc = "return", !.ret = [payment |-> found, err |-> NoErr]]

\* Every failure of FindByID is reported as not-found.
GetPaymentErrAsNotFound(c, found, err) ==
  IF err # NoErr \/ found = Nil
  THEN [c EXCEPT !.pc = "return", !.ret = [payment |-> Nil, err |-> ErrPaymentNotFound]]
  ELSE [c EXCEPT !.pc = "return", !.ret = [payment |-> found, err |-> NoErr]]

\* GetPayment from the return of FindByID (found = Nil: no such key)
GetPayment(c, found, err) ==
  IF err # NoErr
  THEN [c EXCEPT !.pc = "return", !.ret = [payment |-> Nil, err |-> err]]
  ELSE IF found = Nil
  THEN [c EXCEPT !.pc = "return", !.ret = [payment |-> Nil, err |-> ErrPaymentNotFound]]
  ELSE [c EXCEPT !.pc = "return", !.ret = [payment |-> found, err |-> NoErr]]

\* ------------------------------------------------- handlers.PaymentsHandler
\* PostHandler after ProcessPayment returned
PostRespond(ret, h) ==
  IF ret.err # NoErr
  THEN respondWithError(StatusBadGateway, "Unable to process payment with bank")
  ELSE respondWithJSON(StatusOK, FromDomainPayment(h[ret.payment]))

\* GetHandler after GetPayment returned
GetRespond(ret, h) ==
  IF ret.err # NoErr
  THEN IF ErrorsIs(ret.err, ErrPaymentNotFound)
       THEN respondWithError(StatusNotFound, "Payment not found")
       ELSE respondWithError(StatusInternalServerError, "Failed to retrieve payment")
  ELSE respondWithJSON(StatusOK, ToGetPaymentResponse(h[ret.payment]))

\* The service call of goroutine c has returned: its caller takes over.
Returned(c, h) ==
  IF c.op = "post" THEN [c EXCEPT !.pc = "done", !.http = PostRespond(c.ret, h)]
  ELSE IF c.op = "get" THEN [c EXCEPT !.pc = "done", !.http = GetRespond(c.ret, h)]
  ELSE [c EXCEPT !.pc = "done"]

\* -------------------------------------------- repository.PaymentsRepository
\* The map is made anew on every Save.
SaveFreshMap(m, p, ref) == (p.ID :> ref)

\* Only the first write to the map takes effect.
SaveOnceOnly(m, p, ref) == IF DOMAIN m = {} THEN (p.ID :> ref) ELSE m

\* A key that is in use is used again.
SaveOverFirstKey(m, p, ref) ==
  IF DOMAIN m = {} THEN (p.ID :> ref)
  ELSE ((CHOOSE id \in DOMAIN m : \A other \in DOMAIN m : id <= other) :> ref) @@ m

Save(m, p, ref) == (p.ID :> ref) @@ m

FindByID(m, id) == IF id \in DOMAIN m THEN m[id] ELSE Nil

\* sync.RWMutex.Lock comes in two parts: the writer takes the writers' mutex
\* and announces itself, which keeps new readers out (LockAnnounce); when the
\* readers that were in have left, it has the lock (Lock).
LockAnnounce(m, t) == [m EXCEPT !.pending = @ \cup {t}]
Lock(m, t) == [m EXCEPT !.writer = t, !.pending = @ \ {t}]
\* Save returns with the lock still held.
UnlockForgotten(m, t) == m

Unlock(m, t) == [m EXCEPT !.writer = 0]
RLock(m, t) == [m EXCEPT !.readers = @ \cup {t}]
RUnlock(m, t) == [m EXCEPT !.readers = @ \ {t}]

\* ------------------------------------------------------------------ actions
\* A request is served by a goroutine of its own; the free slot with the
\* lowest number stands for it.
Free(t) == call[t].pc = "idle" /\ \A u \in Threads : u < t => call[u].pc # "idle"

\* Goroutine t goes on with locals c; if its call has returned, the handler
\* answers, the caller keeps a 200 to a POST, and t is free again.
Continue(t, c, h) ==
  IF c.pc \in {"return", "done"}
  THEN /\ call' = [call EXCEPT ![t] = IdleCall]
       /\ last' = IF c.pc = "return" THEN Returned(c, h) ELSE c
       /\ received' = IF last'.op = "post" /\ last'.http.code = StatusOK
                      THEN (last'.http.body[1].ID :> last'.http.body[1]) @@ received
                      ELSE received
  ELSE /\ call' = [call EXCEPT ![t] = c]
       /\ last' = IdleCall
       /\ received' = received

\* The payment is handed to ProcessPayment whatever ToDomainPayment returned.
PostHandlerUnchecked(t, req) ==
  /\ Free(t)
  /\ LET payment == ToDomainPayment(req, now) IN
     IF req.malformed
     THEN /\ UNCHANGED <<heap, uuids>>
          /\ Continue(t, [IdleCall EXCEPT !.pc = "done", !.op = "post", !.arg = req,
                            !.http = respondWithError(StatusBadRequest, "Invalid request body")], heap)
     ELSE /\ uuids < MaxPayments
          /\ uuids' = UUIDNew(uuids)
          /\ heap' = Append(heap, ProcessPaymentAssign(payment.p, uuids'))
          /\ Continue(t, [IdleCall EXCEPT !.pc = "bank", !.op = "post", !.arg = req,
                                           !.ref = Len(heap) + 1], heap')
  /\ UNCHANGED <<now, payments, mu>>

\* POST /api/payments: decode, ToDomainPayment (validation), and the start of
\* ProcessPayment up to the call of the bank.
PostHandler(t, req) ==
  /\ Free(t)
  /\ LET payment == ToDomainPayment(req, now) IN
     IF req.malformed
     THEN /\ UNCHANGED <<heap, uuids>>
          /\ Continue(t, [IdleCall EXCEPT !.pc = "done", !.op = "post", !.arg = req,
                            !.http = respondWithError(StatusBadRequest, "Invalid request body")], heap)
     ELSE IF ~payment.ok
     THEN /\ UNCHANGED <<heap, uuids>>
          /\ Continue(t, [IdleCall EXCEPT !.pc = "done", !.op = "post", !.arg = req,
                            !.http = respondWithError(StatusBadRequest, ErrorText(payment.err))], heap)
     ELSE /\ uuids < MaxPayments
          /\ uuids' = UUIDNew(uuids)
          /\ heap' = Append(heap, ProcessPaymentAssign(payment.p, uuids'))
          /\ Continue(t, [IdleCall EXCEPT !.pc = "bank", !.op = "post", !.arg = req,
                                           !.ref = Len(heap) + 1], heap')
  /\ UNCHANGED <<now, payments, mu>>

\* The bank client returns to ProcessPayment, which sets the status or fails.
BankReturn(t, reply) ==
  /\ call[t].pc = "bank"
  /\ LET res == BankProcessPayment(reply)
         heard == [req |-> convertTobankRequest(heap[call[t].ref]), reply |-> reply,
                   resp |-> res.resp, err |-> res.err]
         after == ProcessPaymentBank([call[t] EXCEPT !.bank = Append(@, heard)],
                                     heap[call[t].ref], res)
     IN /\ heap' = [heap EXCEPT ![call[t].ref] = after.p]
        /\ Continue(t, after.c, heap')
  /\ UNCHANGED <<now, payments, mu, uuids>>

\* Save: r.mu.Lock(), up to the wait for the readers to leave
SaveLock(t) ==
  /\ call[t].pc = "save"
  /\ mu.writer = 0 /\ mu.pending = {}
  /\ mu' = LockAnnounce(mu, t)
  /\ Continue(t, [call[t] EXCEPT !.pc = "locking"], heap)
  /\ UNCHANGED <<now, heap, payments, uuids>>

\* The writer does not wait for the readers to leave.
SaveAcquireUnguarded(t) ==
  /\ call[t].pc = "locking"
  /\ mu' = Lock(mu, t)
  /\ Continue(t, [call[t] EXCEPT !.pc = "saving"], heap)
  /\ UNCHANGED <<now, heap, payments, uuids>>

\* Save: r.mu.Lock() returns
SaveAcquire(t) ==
  /\ call[t].pc = "locking"
  /\ mu.readers = {}
  /\ mu' = Lock(mu, t)
  /\ Continue(t, [call[t] EXCEPT !.pc = "saving"], heap)
  /\ UNCHANGED <<now, heap, payments, uuids>>

\* Save: the map write, the deferred Unlock, and the rest of ProcessPayment
\* and of the handler.
SaveWrite(t) ==
  /\ call[t].pc = "saving"
  /\ payments' = Save(payments, heap[call[t].ref], call[t].ref)
  /\ mu' = Unlock(mu, t)
  /\ LET stored == ProcessPaymentSaved([call[t] EXCEPT !.save = Append(@, NoErr)],
                                       heap[call[t].ref], NoErr)
     IN /\ heap' = [heap EXCEPT ![call[t].ref] = stored.p]
        /\ Continue(t, stored.c, heap')
  /\ UNCHANGED <<now, uuids>>

\* GET /api/payments/{id} up to FindByID's r.mu.RLock()
GetHandler(t, id) ==
  /\ Free(t)
  /\ Continue(t, IF id = EmptyID
                 THEN [IdleCall EXCEPT !.pc = "done", !.op = "get",
                         !.http = respondWithError(StatusBadRequest, "Payment ID is required")]
                 ELSE [IdleCall EXCEPT !.pc = "find", !.op = "get", !.id = id], heap)
  /\ UNCHANGED <<now, heap, payments, mu, uuids>>

\* FindByID: r.mu.RLock()
FindRLock(t) ==
  /\ call[t].pc = "find"
  /\ mu.writer = 0 /\ mu.pending = {}
  /\ mu' = RLock(mu, t)
  /\ Continue(t, [call[t] EXCEPT !.pc = "finding"], heap)
  /\ UNCHANGED <<now, heap, payments, uuids>>

\* FindByID: the map read, the deferred RUnlock, and the rest of GetPayment
\* and of the handler.
FindRead(t) ==
  /\ call[t].pc = "finding"
  /\ mu' = RUnlock(mu, t)
  /\ Continue(t, GetPayment([call[t] EXCEPT !.find = Append(@, NoErr)],
                            FindByID(payments, call[t].id), NoErr), heap)
  /\ UNCHANGED <<now, heap, payments, uuids>>

Next ==
  \/ \E t \in Threads, req \in PostRequests(now) : PostHandler(t, req)
  \/ \E t \in Threads, reply \in BankReplies : BankReturn(t, reply)
  \/ \E t \in Threads : SaveLock(t)
  \/ \E t \in Threads : SaveAcquire(t)
  \/ \E t \in Threads : SaveWrite(t)
  \/ \E t \in Threads, id \in GetIDs : GetHandler(t, id)
  \/ \E t \in Threads : FindRLock(t)
  \/ \E t \in Threads : FindRead(t)

Spec == Init /\ [][Next]_vars

\* ------------------------------------------------ a repository that can fail
\* The service holds its repository as the PaymentRepository interface: a
\* backend other than the in-memory map can return a storage error.
ErrStorage == Err("database error")

SaveFails(t) ==
  /\ call[t].pc = "save"
  /\ LET failed == ProcessPaymentSaved([call[t] EXCEPT !.save = Append(@, ErrStorage)],
                                       heap[call[t].ref], ErrStorage)
     IN /\ heap' = [heap EXCEPT ![call[t].ref] = failed.p]
        /\ Continue(t, failed.c, heap')
  /\ UNCHANGED <<now, payments, mu, uuids>>

FindFails(t) ==
  /\ call[t].pc = "find"
  /\ Continue(t, GetPayment([call[t] EXCEPT !.find = Append(@, ErrStorage)], Nil, ErrStorage), heap)
  /\ UNCHANGED <<now, heap, payments, mu, uuids>>

NextRepoErr ==
  \/ Next
  \/ \E t \in Threads : SaveFails(t)
  \/ \E t \in Threads : FindFails(t)

SpecRepoErr == Init /\ [][NextRepoErr]_vars

\* ------------------------------------------- the packages called directly
\* A caller that holds a *domain.Payment (GetPayment returns the pointer the
\* repository holds) can hand it to ProcessPayment again and can call its
\* setters, when no ProcessPayment is at work on it.
Held(ref) ==
  /\ \E id \in DOMAIN payments : payments[id] = ref
  /\ ~\E t \in Threads : call[t].ref = ref /\ call[t].pc \in {"bank", "save", "locking", "saving"}

CallProcessPayment(t, ref) ==
  /\ Free(t)
  /\ Held(ref)
  /\ uuids < MaxPayments
  /\ uuids' = UUIDNew(uuids)
  /\ heap' = [heap EXCEPT ![ref] = ProcessPaymentAssign(@, uuids')]
  /\ Continue(t, [IdleCall EXCEPT !.pc = "bank", !.op = "process", !.ref = ref], heap')
  /\ UNCHANGED <<now, payments, mu>>

CallSetAuthorized(ref) ==
  /\ Held(ref)
  /\ heap' = [heap EXCEPT ![ref] = SetAuthorized(@)]
  /\ last' = IdleCall
  /\ UNCHANGED <<now, payments, mu, uuids, call, received>>

CallSetDeclined(ref) ==
  /\ Held(ref)
  /\ heap' = [heap EXCEPT ![ref] = SetDeclined(@)]
  /\ last' = IdleCall
  /\ UNCHANGED <<now, payments, mu, uuids, call, received>>

CallSetRejected(ref) ==
  /\ Held(ref)
  /\ heap' = [heap EXCEPT ![ref] = SetRejected(@)]
  /\ last' = IdleCall
  /\ UNCHANGED <<now, payments, mu, uuids, call, received>>

\* One caller at a time, as in the packages' tests: it uses the handlers, the
\* service with either kind of repository, and the payments themselves.
Caller == 1

NextAPI ==
  \/ \E req \in PostRequests(now) : PostHandler(Caller, req)
  \/ \E reply \in BankReplies : BankReturn(Caller, reply)
  \/ SaveLock(Caller)
  \/ SaveAcquire(Caller)
  \/ SaveWrite(Caller)
  \/ \E id \in GetIDs : GetHandler(Caller, id)
  \/ FindRLock(Caller)
  \/ FindRead(Caller)
  \/ SaveFails(Caller)
  \/ FindFails(Caller)
  \/ \E ref \in 1..MaxPayments : CallProcessPayment(Caller, ref)
  \/ \E ref \in 1..MaxPayments : CallSetAuthorized(ref)
  \/ \E ref \in 1..MaxPayments : CallSetDeclined(ref)
  \/ \E ref \in 1..MaxPayments : CallSetRejected(ref)

SpecAPI == Init /\ [][NextAPI]_vars

\* ------------------------------------------------------------------ claims
\* C1: when the bank client returns an error to ProcessPayment, Save is not
\* invoked, the store is as it was, and ProcessPayment returns a nil payment
\* and the error "failed to process payment with bank" wrapping the bank
\* client's error.
C1_BankErrorAborts ==
  [][(last'.bank # <<>> /\ last'.bank[1].err # NoErr) =>
       /\ payments' = payments
       /\ last'.save = <<>>
       /\ Len(last'.bank) = 1
       /\ last'.ret = [payment |-> Nil,
                       err |-> Wrap("failed to process payment with bank", last'.bank[1].err)]
       /\ heap'[last'.ref].ID \notin DOMAIN payments']_vars

C1_Witness ==
  /\ last.op = "post"
  /\ last.bank # <<>>
  /\ last.bank[1].err # NoErr
  /\ payments # <<>>

\* C2: when the bank client and Save both succeed, the returned payment has a
\* non-empty id, is Authorized if the bank's flag is true and Declined if not,
\* and is the payment the store holds under that id.
C2_DecisionStored ==
  (last.bank # <<>> /\ last.bank[1].err = NoErr /\ last.save = <<NoErr>>) =>
     /\ last.ret.err = NoErr
     /\ last.ret.payment # Nil
     /\ heap[last.ret.payment].ID # EmptyID
     /\ heap[last.ret.payment].Status =
          (IF last.bank[1].resp.Authorized THEN StatusAuthorized ELSE StatusDeclined)
     /\ heap[last.ret.payment].ID \in DOMAIN payments
     /\ payments[heap[last.ret.payment].ID] = last.ret.payment

C2_Witness ==
  /\ last.op = "post"
  /\ last.save = <<NoErr>>
  /\ ~last.bank[1].resp.Authorized
  /\ last.http.code = StatusOK

\* C3: every payment in the store is Authorized or Declined, never Rejected,
\* whatever POST and GET requests, validation failures, bank decisions and
\* bank failures there have been.
C3_NoRejectedStored ==
  \A id \in DOMAIN payments :
    heap[payments[id]].Status \in {StatusAuthorized, StatusDeclined}

C3_Witness ==
  /\ \E id \in DOMAIN payments : heap[payments[id]].Status = StatusDeclined
  /\ last.op = "post"
  /\ last.http = respondWithError(StatusBadRequest, ErrorText(ErrAmountInvalid))

\* C4 as stated: no operation changes a status that is Authorized or
\* Declined; the only changes of status are Rejected to Authorized and
\* Rejected to Declined.
C4_StatusTerminal ==
  [][\A o \in 1..Len(heap) :
       heap'[o].Status # heap[o].Status =>
         heap[o].Status = StatusRejected /\ heap'[o].Status \in {StatusAuthorized, StatusDeclined}]_vars

\* C4, amended: a status changes only (a) from Rejected to Authorized or
\* Declined when the POST handler's ProcessPayment gets the bank's decision,
\* (b) in a direct call of SetAuthorized, SetDeclined or SetRejected, which
\* assign whatever the status was, (c) when a further ProcessPayment on the
\* same payment gets the bank's decision.
C4_StatusChanges ==
  [][\A o \in 1..Len(heap) :
       heap'[o].Status # heap[o].Status =>
         \/ /\ \E t \in Threads : call[t].pc = "bank" /\ call[t].op = "post" /\ call[t].ref = o
            /\ heap[o].Status = StatusRejected
            /\ heap'[o].Status \in {StatusAuthorized, StatusDeclined}
         \/ /\ UNCHANGED <<payments, mu, uuids, call, received>>
            /\ \/ heap' = [heap EXCEPT ![o] = SetAuthorized(@)]
               \/ heap' = [heap EXCEPT ![o] = SetDeclined(@)]
               \/ heap' = [heap EXCEPT ![o] = SetRejected(@)]
         \/ \E t \in Threads : call[t].pc = "bank" /\ call[t].op = "process" /\ call[t].ref = o]_vars

C4_Witness ==
  /\ Len(heap) = 2
  /\ \E id \in DOMAIN payments :
       payments[id] = 1 /\ heap[1].Status \in {StatusAuthorized, StatusDeclined}
  /\ last.op = "post"
  /\ last.ref = 2
  /\ last.save # <<>>

\* C5: when the bank has decided and Save returns an error, ProcessPayment
\* returns a nil payment and the error "failed to save payment" wrapping the
\* storage error, which is not the error of a bank failure; the bank was
\* called once and Save once.
C5_SaveErrorSurfaced ==
  (last.save # <<>> /\ last.save[1] # NoErr) =>
     /\ last.ret = [payment |-> Nil, err |-> Wrap("failed to save payment", last.save[1])]
     /\ \A reply \in BankReplies :
          last.ret.err # Wrap("failed to process payment with bank", BankProcessPayment(reply).err)
     /\ last.ret.err[1].msg # "failed to process payment with bank"
     /\ Len(last.bank) = 1
     /\ last.bank[1].err = NoErr
     /\ Len(last.save) = 1

C5_Witness ==
  /\ last.op = "post"
  /\ last.save # <<>>
  /\ last.save[1] # NoErr
  /\ last.bank[1].resp.Authorized

\* C6: the POST handler's response to a failed Save differs from its
\* response to a failed bank call, in status code or in message.
C6_DistinctResponses ==
  [][( /\ last.op = "post" /\ last.save # <<>> /\ last.save[1] # NoErr
       /\ last'.op = "post" /\ last'.bank # <<>> /\ last'.bank[1].err # NoErr )
     => last.http # last'.http]_vars

\* C7: GetPayment for an id under which nothing was saved returns a nil
\* payment and ErrPaymentNotFound itself, not a storage error, whether the
\* store is empty or holds other ids.
C7_NotFound ==
  (last.op = "get" /\ last.find # <<>> /\ last.id \notin DOMAIN payments) =>
     /\ last.ret = [payment |-> Nil, err |-> ErrPaymentNotFound]
     /\ last.find = <<NoErr>>

C7_Witness ==
  /\ last.op = "get"
  /\ last.find # <<>>
  /\ last.id \notin DOMAIN payments
  /\ payments # <<>>

\* C8: once a POST has answered with a record, a GET of that record's id
\* answers with the same id, status, currency, amount, expiry month and year
\* and last four digits, and GetPayment returns a payment with those values,
\* whatever other requests there have been.
C8_RoundTrip ==
  (last.op = "get" /\ last.find # <<>> /\ last.id \in DOMAIN received) =>
     /\ last.ret.err = NoErr
     /\ last.ret.payment # Nil
     /\ FromDomainPayment(heap[last.ret.payment]) = received[last.id]
     /\ last.http = respondWithJSON(StatusOK, received[last.id])

C8_Witness ==
  /\ last.op = "get"
  /\ last.find # <<>>
  /\ last.id = 1
  /\ DOMAIN received = {1, 2}

\* C9: every ProcessPayment call gives its payment a non-empty id that no
\* other call has given, under any interleaving, and no Save writes under an
\* id that is already in the store.
C9_FreshIDs ==
  [][/\ \A i \in 1..Len(heap') : heap'[i].ID # EmptyID
     /\ \A i, j \in 1..Len(heap') : i # j => heap'[i].ID # heap'[j].ID
     /\ \A id \in DOMAIN payments : id \in DOMAIN payments' /\ payments'[id] = payments[id]]_vars

C9_Witness ==
  /\ Len(heap) = 2
  /\ \E t, u \in Threads : t # u /\ call[t].pc = "bank" /\ call[u].pc = "saving"

\* C10: no payment in the store holds more of its card than the last four
\* digits of the number: not the full number, not the CVV.
C10_OnlyLastFourStored ==
  \A id \in DOMAIN payments :
    /\ heap[payments[id]].Card.CVV = <<>>
    /\ Len(heap[payments[id]].Card.Number) <= 4

\* ------------------------------------------- cards that differ in the secret
\* Requests that are equal in everything a response shows: they differ in the
\* CVV and in the digits of the card number before the last four.
CardRequests(t) ==
  { [malformed |-> FALSE, CardNumber |-> CardA, ExpiryMonth |-> 12, ExpiryYear |-> t.year + 1,
     Currency |-> <<"G", "B", "P">>, Amount |-> 100, CVV |-> <<"1", "2", "3">>],
    [malformed |-> FALSE, CardNumber |-> CardB, ExpiryMonth |-> 12, ExpiryYear |-> t.year + 1,
     Currency |-> <<"G", "B", "P">>, Amount |-> 100, CVV |-> <<"4", "5", "6", "7">>] }

NextCards ==
  \/ \E t \in Threads, req \in CardRequests(now) : PostHandler(t, req)
  \/ \E t \in Threads, reply \in BankReplies : BankReturn(t, reply)
  \/ \E t \in Threads : SaveLock(t)
  \/ \E t \in Threads : SaveAcquire(t)
  \/ \E t \in Threads : SaveWrite(t)
  \/ \E t \in Threads, id \in GetIDs : GetHandler(t, id)
  \/ \E t \in Threads : FindRLock(t)
  \/ \E t \in Threads : FindRead(t)

SpecCards == Init /\ [][NextCards]_vars

\* C11: a 200 response to POST or GET shows of the card the final four
\* characters of the submitted number and the expiry, and has no field for the
\* CVV; the responses for two payments that differ only in the CVV and in the
\* digits before the last four, with the same bank decision, are equal in
\* every field except the id.
C11_OnlyLastFourExposed ==
  LET Shown(r) == [r EXCEPT !.ID = EmptyID]
      Tail4(n) == SubSeq(n, Len(n) - 3, Len(n))
      Alike(p, q) ==
        /\ Tail4(p.Card.Number) = Tail4(q.Card.Number)
        /\ p.Card.ExpiryMonth = q.Card.ExpiryMonth
        /\ p.Card.ExpiryYear = q.Card.ExpiryYear
        /\ p.Currency = q.Currency
        /\ p.Amount = q.Amount
        /\ p.Status = q.Status
      Fields == {"ID", "Status", "CardNumberLastFour", "ExpiryMonth", "ExpiryYear",
                 "Currency", "Amount"}
  IN
  /\ \A i \in DOMAIN received :
       /\ DOMAIN received[i] = Fields
       /\ received[i].CardNumberLastFour = Tail4(heap[payments[i]].Card.Number)
       /\ \A j \in DOMAIN received :
            Alike(heap[payments[i]], heap[payments[j]]) => Shown(received[i]) = Shown(received[j])
  /\ (last.op = "get" /\ last.http.code = StatusOK) =>
       /\ DOMAIN last.http.body[1] = Fields
       /\ last.http.body[1].CardNumberLastFour = Tail4(heap[payments[last.id]].Card.Number)
       /\ \A j \in DOMAIN received :
            Alike(heap[payments[last.id]], heap[payments[j]])
              => Shown(last.http.body[1]) = Shown(received[j])

C11_Witness ==
  /\ DOMAIN received = {1, 2}
  /\ heap[payments[1]].Card.Number # heap[payments[2]].Card.Number
  /\ heap[payments[1]].Card.CVV # heap[payments[2]].Card.CVV
  /\ heap[payments[1]].Status = heap[payments[2]].Status
  /\ last.op = "get"
  /\ last.id = 2
  /\ last.http.code = StatusOK

\* ------------------------------------------------ requests that break a rule
\* One request for each validation rule, and one that breaks the first and
\* the last rule at once.
InvalidRequests(t) ==
  LET good == [malformed |-> FALSE, CardNumber |-> CardA, ExpiryMonth |-> 12,
               ExpiryYear |-> t.year + 1, Currency |-> <<"G", "B", "P">>, Amount |-> 100,
               CVV |-> <<"1", "2", "3">>]
  IN
  { [good EXCEPT !.CardNumber = <<>>],
    [good EXCEPT !.CardNumber = Rep("1", 13)],
    [good EXCEPT !.CardNumber = Rep("1", 13) \o <<"x">>],
    [good EXCEPT !.ExpiryMonth = 0],
    [good EXCEPT !.ExpiryMonth = 13],
    [good EXCEPT !.ExpiryYear = 0],
    [good EXCEPT !.ExpiryYear = t.year - 1],
    [good EXCEPT !.ExpiryYear = t.year, !.ExpiryMonth = t.month - 1],
    [good EXCEPT !.CVV = <<>>],
    [good EXCEPT !.CVV = <<"1", "2">>],
    [good EXCEPT !.CVV = <<"1", "2", "a">>],
    [good EXCEPT !.Currency = <<>>],
    [good EXCEPT !.Currency = <<"U", "S">>],
    [good EXCEPT !.Currency = <<"X", "Y", "Z">>],
    [good EXCEPT !.Amount = 0],
    [good EXCEPT !.Amount = -1],
    [good EXCEPT !.CardNumber = <<>>, !.Amount = 0] }

\* Callers that only POST, requests that pass among those that do not.
NextInvalid ==
  \/ \E t \in Threads, req \in PostRequests(now) \cup InvalidRequests(now) : PostHandler(t, req)
  \/ \E t \in Threads, reply \in BankReplies : BankReturn(t, reply)
  \/ \E t \in Threads : SaveLock(t)
  \/ \E t \in Threads : SaveAcquire(t)
  \/ \E t \in Threads : SaveWrite(t)

SpecInvalid == Init /\ [][NextInvalid]_vars

\* C12: a POST whose fields break a validation rule is answered 400 with the
\* message of the validation error; ProcessPayment is not invoked for it (no
\* id is made, the bank client is not called, Save is not called), no payment
\* is allocated and the store is as it was; no request that breaks a rule is
\* ever being processed.
C12_InvalidRejectedEarly ==
  [][/\ (last'.op = "post" /\ ~last'.arg.malformed) =>
          LET validated == ToDomainPayment(last'.arg, now) IN
          ~validated.ok =>
             /\ last'.http = respondWithError(StatusBadRequest, validated.err[1].msg)
             /\ last'.ret = NoReturn
             /\ last'.bank = <<>>
             /\ last'.save = <<>>
             /\ uuids' = uuids
             /\ heap' = heap
             /\ payments' = payments
     /\ \A t \in Threads :
          (call'[t].op = "post" /\ call[t].op # "post") => ToDomainPayment(call'[t].arg, now).ok]_vars

C12_Witness ==
  /\ last.op = "post"
  /\ last.arg \in InvalidRequests(now)
  /\ last.arg.CVV = <<"1", "2", "a">>
  /\ last.http.error = "CVV must only contain numeric characters"
  /\ payments # <<>>
  /\ \E t \in Threads : call[t].pc = "bank"

\* ------------------------------------------- the domain package called directly
\* As in the package's tests: a Card or Payment literal is built and its
\* validation methods, or NewPayment with its fields, are called on it, at
\* some time of the year.
Clocks == {[year |-> 2026, month |-> m] : m \in {1, 2, 12}}

Numbers ==
  { <<>>, Rep("1", 13), Rep("1", 12) \o <<"x">>, CardB, Rep("1", 13) \o <<"x">>,
    Rep("9", 19), Rep("1", 20) }

Months == {-1, 0, 1, 2, 11, 12, 13}
Years == {0, 2025, 2026, 2027}
CVVs == { <<>>, <<"1", "2">>, <<"1", "a">>, <<"1", "2", "3">>, <<"1", "2", "a">>,
          <<"1", "2", "3", "4">>, <<"1", "2", "3", "4", "5">> }
Currencies == { <<>>, <<"u", "s", "d">>, <<"G", "B", "P">>, <<"E", "u", "r">>,
                <<"X", "Y", "Z">>, <<"U", "S">>, <<"u", "s", "d", "d">> }
Amounts == {-1, 0, 1, 100}

Cards ==
  [Number : Numbers, ExpiryMonth : Months, ExpiryYear : Years, CVV : CVVs]

\* A card that passes at every clock value, one whose number fails and one
\* whose CVV fails.
SomeCards ==
  { [Number |-> CardA, ExpiryMonth |-> 12, ExpiryYear |-> 2027, CVV |-> <<"1", "2", "3">>],
    [Number |-> Rep("1", 13), ExpiryMonth |-> 12, ExpiryYear |-> 2027, CVV |-> <<"1", "2", "3">>],
    [Number |-> CardA, ExpiryMonth |-> 12, ExpiryYear |-> 2027, CVV |-> <<"1", "2", "a">>] }

\* Payment{Card: ..., Currency: ..., Amount: ...}: the ID and the Status are
\* the zero value
PaymentLiteral(card, currency, amount) ==
  [ID |-> EmptyID, Card |-> card, Currency |-> currency, Amount |-> amount, Status |-> ""]

Literals ==
  {PaymentLiteral(c, <<"G", "B", "P">>, 100) : c \in Cards}
  \cup {PaymentLiteral(c, cur, a) : c \in SomeCards, cur \in Currencies, a \in Amounts}

InitDomain ==
  /\ now \in Clocks
  /\ heap \in {<<p>> : p \in Literals}
  /\ payments = <<>>
  /\ mu = [writer |-> 0, pending |-> {}, readers |-> {}]
  /\ uuids = 0
  /\ call = [t \in Threads |-> IdleCall]
  /\ last = IdleCall
  /\ received = <<>>

\* A method called on heap[ref] has returned err; arg is the receiver as it
\* was when the method was called.
MethodReturned(op, ref, err) ==
  [IdleCall EXCEPT !.pc = "done", !.op = op, !.arg = heap[ref], !.ref = ref,
                   !.ret = [payment |-> Nil, err |-> err]]

CallValidateCardNumber(ref) ==
  /\ last' = MethodReturned("validateCardNumber", ref, validateCardNumber(heap[ref].Card))
  /\ UNCHANGED <<now, heap, payments, mu, uuids, call, received>>

CallValidateExpiry(ref) ==
  /\ last' = MethodReturned("validateExpiry", ref, validateExpiry(heap[ref].Card, now))
  /\ UNCHANGED <<now, heap, payments, mu, uuids, call, received>>

CallValidateCVV(ref) ==
  /\ last' = MethodReturned("validateCVV", ref, validateCVV(heap[ref].Card))
  /\ UNCHANGED <<now, heap, payments, mu, uuids, call, received>>

CallCardValidate(ref) ==
  /\ last' = MethodReturned("Card.Validate", ref, CardValidate(heap[ref].Card, now))
  /\ UNCHANGED <<now, heap, payments, mu, uuids, call, received>>

CallValidateCurrency(ref) ==
  /\ heap' = [heap EXCEPT ![ref] = validateCurrency(@).p]
  /\ last' = MethodReturned("validateCurrency", ref, validateCurrency(heap[ref]).err)
  /\ UNCHANGED <<now, payments, mu, uuids, call, received>>

CallValidateAmount(ref) ==
  /\ last' = MethodReturned("validateAmount", ref, validateAmount(heap[ref]))
  /\ UNCHANGED <<now, heap, payments, mu, uuids, call, received>>

CallPaymentValidate(ref) ==
  /\ heap' = [heap EXCEPT ![ref] = PaymentValidate(@, now).p]
  /\ last' = MethodReturned("Payment.Validate", ref, PaymentValidate(heap[ref], now).err)
  /\ UNCHANGED <<now, payments, mu, uuids, call, received>>

\* NewPayment(card, currency, amount) with the fields of heap[ref]
CallNewPayment(ref) ==
  /\ Len(heap) < MaxPayments
  /\ LET made == NewPayment(heap[ref].Card, heap[ref].Currency, heap[ref].Amount, now) IN
     /\ heap' = IF made.ok THEN Append(heap, made.p) ELSE heap
     /\ last' = [IdleCall EXCEPT !.pc = "done", !.op = "NewPayment", !.arg = heap[ref], !.ref = ref,
                    !.ret = [payment |-> IF made.ok THEN Len(heap) + 1 ELSE Nil,
                             err |-> made.err]]
  /\ UNCHANGED <<now, payments, mu, uuids, call, received>>

NextDomain ==
  \/ \E ref \in 1..Len(heap) : CallValidateCardNumber(ref)
  \/ \E ref \in 1..Len(heap) : CallValidateExpiry(ref)
  \/ \E ref \in 1..Len(heap) : CallValidateCVV(ref)
  \/ \E ref \in 1..Len(heap) : CallCardValidate(ref)
  \/ \E ref \in 1..Len(heap) : CallValidateCurrency(ref)
  \/ \E ref \in 1..Len(heap) : CallValidateAmount(ref)
  \/ \E ref \in 1..Len(heap) : CallPaymentValidate(ref)
  \/ \E ref \in 1..Len(heap) : CallNewPayment(ref)

SpecDomain == InitDomain /\ [][NextDomain]_vars

\* C13: Card.Validate returns the error of the first rule the card breaks,
\* in the order number empty, number length outside 14..19, number not all
\* digits, month zero, month outside 1..12, year zero, expiry before the
\* current year and month, CVV empty, CVV length outside 3..4, CVV not all
\* digits; it returns nil exactly when the card breaks none.
C13_CardValidateOrder ==
  last.op = "Card.Validate" =>
    LET c == heap[last.ref].Card
        AllDigits(str) == \A i \in 1..Len(str) : str[i] \in Digits
        Rules ==
          << <<c.Number = <<>>, ErrCardNumberRequired>>,
             <<Len(c.Number) \notin 14..19, ErrCardNumberInvalid>>,
             <<~AllDigits(c.Number), ErrCardNumberNotNumeric>>,
             <<c.ExpiryMonth = 0, ErrExpiryMonthRequired>>,
             <<c.ExpiryMonth \notin 1..12, ErrExpiryMonthInvalid>>,
             <<c.ExpiryYear = 0, ErrExpiryYearRequired>>,
             <<c.ExpiryYear < now.year \/ (c.ExpiryYear = now.year /\ c.ExpiryMonth < now.month),
               ErrExpiryDateInPast>>,
             <<c.CVV = <<>>, ErrCVVRequired>>,
             <<Len(c.CVV) \notin 3..4, ErrCVVInvalid>>,
             <<~AllDigits(c.CVV), ErrCVVNotNumeric>> >>
        Broken == {i \in 1..Len(Rules) : Rules[i][1]}
    IN
    /\ Broken = {} <=> last.ret.err = NoErr
    /\ Broken # {} =>
         last.ret.err = Rules[CHOOSE i \in Broken : \A j \in Broken : i <= j][2]

C13_Witness ==
  /\ last.op = "Card.Validate"
  /\ last.ret.err = ErrExpiryDateInPast
  /\ heap[last.ref].Card.ExpiryYear = now.year
  /\ heap[last.ref].Card.CVV = <<"1", "a">>

\* C14 as stated: for every card number whose length is outside 14..19,
\* validation fails with ErrCardNumberInvalid, whatever the other fields are.
C14_LengthInvalid ==
  ( /\ last.op \in {"validateCardNumber", "Card.Validate", "Payment.Validate", "NewPayment"}
    /\ Len(heap[last.ref].Card.Number) \notin 14..19 )
  => last.ret.err = ErrCardNumberInvalid

\* C14, amended: for every card number that is not empty and whose length is
\* outside 14..19, validateCardNumber, Card.Validate, Payment.Validate and
\* NewPayment fail with ErrCardNumberInvalid, whatever the other fields and
\* whether or not the number is all digits; for the empty card number they
\* fail with ErrCardNumberRequired.
C14_NonEmptyLengthInvalid ==
  ( /\ last.op \in {"validateCardNumber", "Card.Validate", "Payment.Validate", "NewPayment"}
    /\ Len(heap[last.ref].Card.Number) \notin 14..19 )
  => last.ret.err = IF heap[last.ref].Card.Number = <<>>
                    THEN ErrCardNumberRequired
                    ELSE ErrCardNumberInvalid

C14_Witness ==
  /\ last.op = "Payment.Validate"
  /\ heap[last.ref].Card.Number = Rep("1", 12) \o <<"x">>
  /\ heap[last.ref].Card.ExpiryMonth = 13
  /\ heap[last.ref].Card.CVV = <<>>
  /\ last.ret.err = ErrCardNumberInvalid

\* C15: validateExpiry accepts an expiry in the current year and month; an
\* expiry in the current year and the month before the current one is
\* refused with ErrExpiryDateInPast when the current month is February to
\* December and accepted when it is January; an expiry in a later year is
\* accepted for every month in 1..12.
C15_ExpiryBoundary ==
  last.op = "validateExpiry" =>
    LET c == heap[last.ref].Card IN
    /\ (c.ExpiryYear = now.year /\ c.ExpiryMonth = now.month) => last.ret.err = NoErr
    /\ (c.ExpiryYear = now.year /\ c.ExpiryMonth = now.month - 1) =>
         last.ret.err = IF now.month \in 2..12 THEN ErrExpiryDateInPast ELSE NoErr
    /\ (c.ExpiryYear > now.year /\ c.ExpiryMonth \in 1..12) => last.ret.err = NoErr

\* C16: Payment.Validate and NewPayment return the first error in the order
\* error of the card, ErrCurrencyRequired, ErrCurrencyInvalid,
\* ErrAmountInvalid, and nil exactly when none applies; validateAmount
\* refuses every amount <= 0 with ErrAmountInvalid and accepts every amount
\* >= 1; NewPayment returns a nil payment on an error and a payment with
\* status Rejected otherwise.
C16_PaymentValidateOrder ==
  [][/\ last'.op \in {"Payment.Validate", "NewPayment"} =>
          LET p == heap[last'.ref]
              cardErr == CardValidate(p.Card, now)
              expected ==
                IF cardErr # NoErr THEN cardErr
                ELSE IF p.Currency = <<>> THEN ErrCurrencyRequired
                ELSE IF ToUpper(p.Currency) \notin
                          {<<"U", "S", "D">>, <<"G", "B", "P">>, <<"E", "U", "R">>}
                THEN ErrCurrencyInvalid
                ELSE IF p.Amount <= 0 THEN ErrAmountInvalid
                ELSE NoErr
          IN
          /\ last'.ret.err = expected
          /\ last'.op = "NewPayment" =>
               IF expected # NoErr
               THEN last'.ret.payment = Nil /\ heap' = heap
               ELSE /\ last'.ret.payment = Len(heap) + 1
                    /\ Len(heap') = Len(heap) + 1
                    /\ heap'[last'.ret.payment].Status = StatusRejected
                    /\ heap'[last'.ret.payment].Card = p.Card
                    /\ heap'[last'.ret.payment].Amount = p.Amount
     /\ last'.op = "validateAmount" =>
          last'.ret.err = IF heap[last'.ref].Amount >= 1 THEN NoErr ELSE ErrAmountInvalid]_vars

C16_Witness ==
  /\ last.op = "NewPayment"
  /\ heap[last.ref].Status = ""
  /\ heap[last.ref].Currency = <<"u", "s", "d">>
  /\ heap[last.ref].Amount = 1
  /\ last.ret.payment = 2
  /\ heap[2].Status = StatusRejected

\* C17: validateCurrency succeeds exactly for the currencies whose upper-case
\* form is USD, GBP or EUR, in any letter case; on success the payment's
\* currency is that upper-case form and nothing else of the payment has
\* changed; validating a payment whose currency an earlier validation has
\* stored leaves the payment as it is; the empty currency gives
\* ErrCurrencyRequired and every other one ErrCurrencyInvalid.
C17_CurrencyNormalised ==
  last.op = "validateCurrency" =>
    LET given == last.arg.Currency
        Supported == {<<"U", "S", "D">>, <<"G", "B", "P">>, <<"E", "U", "R">>}
    IN
    /\ last.ret.err = NoErr <=> ToUpper(given) \in Supported
    /\ given = <<>> => last.ret.err = ErrCurrencyRequired
    /\ (given # <<>> /\ ToUpper(given) \notin Supported) => last.ret.err = ErrCurrencyInvalid
    /\ last.ret.err = NoErr => heap[last.ref] = [last.arg EXCEPT !.Currency = ToUpper(given)]
    /\ given \in Supported => heap[last.ref] = last.arg

\* heap[1] is the literal, and no literal has the currency USD: an earlier
\* validation has stored it.
C17_Witness ==
  /\ last.op = "validateCurrency"
  /\ last.ref = 1
  /\ last.arg.Currency = <<"U", "S", "D">>
  /\ last.ret.err = NoErr
  /\ heap[1].Currency = <<"U", "S", "D">>

\* C18: when Payment.Validate returns an error, whichever rule is broken,
\* every field of the payment, the currency included, is as it was before the
\* call.
C18_NoPartialValidation ==
  (last.op = "Payment.Validate" /\ last.ret.err # NoErr) => heap[last.ref] = last.arg

\* ------------------------------------------- the bank client called directly
\* As in the client's tests: ProcessPayment is called with a payment against
\* a server that answers as it likes, or not at all.
BodyEmptyObject == [decodable |-> TRUE, authorized |-> FALSE, raw |-> "{}"]
BodyNone == [decodable |-> FALSE, authorized |-> FALSE, raw |-> ""]

\* Status codes that the client's switch has no case for
OtherCodes == {201, 204, 404, StatusInternalServerError, StatusBadGateway}

ClientReplies ==
  {[kind |-> "http", code |-> k, body |-> b, read |-> r] :
     k \in {StatusOK, StatusBadRequest, StatusServiceUnavailable} \cup OtherCodes,
     b \in {BodyAuthorized, BodyDeclined, BodyEmptyObject, BodyInvalid, BodyNone},
     r \in {"ok", "timeout", "reset"}}
  \cup {[kind |-> k, code |-> 0, body |-> BodyNone, read |-> "ok"] : k \in {"refused", "timeout"}}

ClientPayments ==
  { [ID |-> 1, Card |-> [Number |-> CardA, ExpiryMonth |-> 12, ExpiryYear |-> 2027,
                         CVV |-> <<"1", "2", "3">>],
     Currency |-> <<"G", "B", "P">>, Amount |-> 100, Status |-> StatusRejected],
    [ID |-> 1, Card |-> [Number |-> CardB, ExpiryMonth |-> 1, ExpiryYear |-> 2026,
                         CVV |-> <<"4", "5", "6", "7">>],
     Currency |-> <<"U", "S", "D">>, Amount |-> 1, Status |-> StatusRejected] }
  \cup { [ID |-> 1, Card |-> [Number |-> CardA, ExpiryMonth |-> m, ExpiryYear |-> y,
                              CVV |-> <<"1", "2", "3">>],
          Currency |-> <<"E", "U", "R">>, Amount |-> 1050, Status |-> StatusRejected] :
          m \in 1..12, y \in {1000, 2025, 2030, 9999} }

InitClient ==
  /\ now \in Clock
  /\ heap \in {<<p>> : p \in ClientPayments}
  /\ payments = <<>>
  /\ mu = [writer |-> 0, pending |-> {}, readers |-> {}]
  /\ uuids = 1
  /\ call = [t \in Threads |-> IdleCall]
  /\ last = IdleCall
  /\ received = <<>>

\* ProcessPayment of the client up to httpClient.Do
CallBankClient(t, ref) ==
  /\ Free(t)
  /\ Continue(t, [IdleCall EXCEPT !.pc = "client", !.op = "client", !.arg = heap[ref],
                                  !.ref = ref], heap)
  /\ UNCHANGED <<now, heap, payments, mu, uuids>>

\* httpClient.Do and io.ReadAll are over: the client returns
ClientReturn(t, reply) ==
  /\ call[t].pc = "client"
  /\ LET res == BankProcessPayment(reply)
         heard == [req |-> convertTobankRequest(heap[call[t].ref]), reply |-> reply,
                   resp |-> res.resp, err |-> res.err]
     IN Continue(t, [call[t] EXCEPT !.pc = "done", !.bank = Append(@, heard)], heap)
  /\ UNCHANGED <<now, heap, payments, mu, uuids>>

NextClient ==
  \/ \E t \in Threads, ref \in 1..Len(heap) : CallBankClient(t, ref)
  \/ \E t \in Threads, reply \in ClientReplies : ClientReturn(t, reply)

SpecClient == InitClient /\ [][NextClient]_vars

\* C19: the bank client returns a response (and no error) only for a status
\* 200 whose body decodes, with the body's authorized flag; for a 200 whose
\* body does not decode it fails with the decode error, for a 400 with "bank
\* rejected request" and the bank's body, for a 503 with "bank service
\* unavailable", for every other status, other 2xx and 5xx included, with
\* "unexpected response from bank", and for a transport error with an error
\* of its own; every failure comes with a nil response.
C19_OutcomeOnlyFor200 ==
  last.op = "client" =>
    LET r == last.bank[1].reply
        res == last.bank[1]
        whole == r.kind = "http" /\ r.read = "ok"
    IN
    /\ res.err = NoErr <=> (whole /\ r.code = 200 /\ r.body.decodable)
    /\ res.err = NoErr => res.resp = [isNil |-> FALSE, Authorized |-> r.body.authorized]
    /\ res.err # NoErr => res.resp.isNil
    /\ (whole /\ r.code = 200 /\ ~r.body.decodable) =>
         res.err[1].msg = "failed to unmarshal bank response"
    /\ (whole /\ r.code = 400) =>
         res.err = <<[msg |-> "bank rejected request: %s", code |-> 0, body |-> r.body.raw]>>
    /\ (whole /\ r.code = 503) =>
         res.err = <<[msg |-> "bank service unavailable", code |-> 0, body |-> ""]>>
    /\ (whole /\ r.code \notin {200, 400, 503}) =>
         res.err = <<[msg |-> "unexpected response from bank: %d - %s", code |-> r.code,
                      body |-> r.body.raw]>>
    /\ r.kind # "http" => res.err[1].msg = "failed to send request to bank"
    /\ (r.kind = "http" /\ r.read # "ok") => res.err[1].msg = "failed to read response body"

C19_Witness ==
  /\ last.op = "client"
  /\ last.bank[1].reply.kind = "http"
  /\ last.bank[1].reply.read = "ok"
  /\ last.bank[1].reply.code = 201
  /\ last.bank[1].reply.body = BodyAuthorized
  /\ last.bank[1].err # NoErr

\* ------------------------------------------------------ the client's timeout
\* http.Client{Timeout: 10 * time.Second}: httpClient.Do and the reading of
\* the body cannot block for ever, so a bank call that has been made returns,
\* with the bank's answer or with the timeout.
SpecTimeout ==
  Spec /\ \A t \in Threads : WF_vars(\E reply \in BankReplies : BankReturn(t, reply))

\* C20: a bank call that has been made returns; when the bank has not
\* answered within the client's timeout (no response, or a response whose
\* body did not arrive in time), the client returns a nil response and an
\* error, never a response whose authorized flag is false, ProcessPayment
\* returns an error, Save is not called, and the payment is neither Declined
\* nor in the store.
C20_TimeoutIsFailure ==
  /\ [](( /\ last.bank # <<>>
          /\ \/ last.bank[1].reply.kind = "timeout"
             \/ last.bank[1].reply.kind = "http" /\ last.bank[1].reply.read = "timeout" )
        => /\ last.bank[1].resp.isNil
           /\ last.bank[1].err # NoErr
           /\ last.ret.payment = Nil
           /\ last.ret.err # NoErr
           /\ last.save = <<>>
           /\ heap[last.ref].Status # StatusDeclined
           /\ \A id \in DOMAIN payments : payments[id] # last.ref)
  /\ \A t \in Threads : (call[t].pc = "bank") ~> (call[t].pc # "bank")

C20_Witness ==
  /\ last.op = "post"
  /\ last.bank # <<>>
  /\ last.bank[1].reply.kind = "http"
  /\ last.bank[1].reply.read = "timeout"
  /\ last.bank[1].reply.body = BodyDeclined
  /\ last.http.code = StatusBadGateway
  /\ payments # <<>>

\* ------------------------------------------------- a caller that gives up
\* The caller of a POST closes its connection, or its deadline passes, while
\* the bank is being asked: net/http cancels r.Context().  PostHandler does
\* not read r.Context(), ProcessPayment takes no context and the client
\* builds its request with http.NewRequest, so nothing else changes.
CancelRequest(t) ==
  /\ call[t].pc = "bank"
  /\ call[t].op = "post"
  /\ call[t].ctx = "live"
  /\ Continue(t, [call[t] EXCEPT !.ctx = "cancelled"], heap)
  /\ UNCHANGED <<now, heap, payments, mu, uuids>>

NextCancel ==
  \/ Next
  \/ \E t \in Threads : CancelRequest(t)

SpecCancel == Init /\ [][NextCancel]_vars

\* C21: when the caller's request is cancelled while the bank call for it is
\* in flight, the bank call ends with an error, Save is not called for that
\* ProcessPayment call and its payment never is in the store.
C21_CancelledNotSaved ==
  /\ \A t \in Threads :
       call[t].ctx = "cancelled" =>
         /\ call[t].pc = "bank"
         /\ \A id \in DOMAIN payments : payments[id] # call[t].ref
  /\ last.ctx = "cancelled" =>
       /\ last.bank[1].err # NoErr
       /\ last.save = <<>>
       /\ last.ret.payment = Nil
       /\ \A id \in DOMAIN payments : payments[id] # last.ref

\* C22: no goroutine is inside Save's critical section while another is
\* inside Save's or FindByID's (FindByID's may overlap); the record a
\* FindByID is about to read, and the one a GetPayment has returned, has the
\* id asked for and is Authorized or Declined: a GetPayment observes that or
\* not-found, never a record the bank's decision has not been applied to.
C22_StoreExclusive ==
  /\ \A t, u \in Threads :
       (t # u /\ call[t].pc = "saving") => call[u].pc \notin {"saving", "finding"}
  /\ \A t \in Threads :
       (call[t].pc = "finding" /\ call[t].id \in DOMAIN payments) =>
         /\ heap[payments[call[t].id]].ID = call[t].id
         /\ heap[payments[call[t].id]].Status \in {StatusAuthorized, StatusDeclined}
  /\ (last.op = "get" /\ last.find # <<>>) =>
       \/ last.ret = [payment |-> Nil, err |-> ErrPaymentNotFound]
       \/ /\ last.ret.err = NoErr
          /\ last.ret.payment # Nil
          /\ heap[last.ret.payment].ID = last.id
          /\ heap[last.ret.payment].Status \in {StatusAuthorized, StatusDeclined}

C22_Witness ==
  \E t, u \in Threads :
    /\ call[t].pc = "finding"
    /\ call[t].id \in DOMAIN payments
    /\ call[u].pc = "locking"
    /\ heap[call[u].ref].ID = call[t].id + 1

\* C23: the store has one record for an id; an id that is in the store stays
\* in it, with the same record, unchanged, in every later state; no step of a
\* GET, and no POST that ends in an error (validation, bank or storage),
\* changes the store.
C23_StoreOnlyGrows ==
  [][/\ \A id \in DOMAIN payments :
          /\ id \in DOMAIN payments'
          /\ payments'[id] = payments[id]
          /\ heap'[payments[id]] = heap[payments[id]]
     /\ \A i, j \in DOMAIN payments' : payments'[i] = payments'[j] => i = j
     /\ \A t \in Threads :
          (call'[t] # call[t] /\ "get" \in {call[t].op, call'[t].op}) => payments' = payments
     /\ last'.op = "get" => payments' = payments
     /\ (last'.op = "post" /\ last'.http.code # StatusOK) => payments' = payments]_vars

C23_Witness ==
  /\ DOMAIN payments = {1}
  /\ uuids = 2
  /\ last.op = "post"
  /\ last.save = <<ErrStorage>>
  /\ last.http.code # StatusOK

\* C24: GetPayment returns a storage error of FindByID as it is, never as
\* not-found; the GET handler answers 200 with the record when it is found,
\* 404 "Payment not found" when GetPayment returns ErrPaymentNotFound, and
\* 500 "Failed to retrieve payment" for the storage error.
C24_GetResponses ==
  (last.op = "get" /\ last.find # <<>>) =>
    /\ last.find[1] # NoErr =>
         /\ last.ret = [payment |-> Nil, err |-> last.find[1]]
         /\ last.ret.err # ErrPaymentNotFound
         /\ last.http = [code |-> 500, error |-> "Failed to retrieve payment", body |-> <<>>]
    /\ (last.find[1] = NoErr /\ last.id \notin DOMAIN payments) =>
         /\ last.ret = [payment |-> Nil, err |-> ErrPaymentNotFound]
         /\ last.http = [code |-> 404, error |-> "Payment not found", body |-> <<>>]
    /\ (last.find[1] = NoErr /\ last.id \in DOMAIN payments) =>
         /\ last.ret = [payment |-> payments[last.id], err |-> NoErr]
         /\ last.http.code = 200
         /\ last.http.error = ""
         /\ Len(last.http.body) = 1
         /\ last.http.body[1].ID = last.id
         /\ last.http.body[1].Status = heap[payments[last.id]].Status
         /\ last.http.body[1].Currency = heap[payments[last.id]].Currency
         /\ last.http.body[1].Amount = heap[payments[last.id]].Amount
         /\ last.http.body[1].ExpiryMonth = heap[payments[last.id]].Card.ExpiryMonth
         /\ last.http.body[1].ExpiryYear = heap[payments[last.id]].Card.ExpiryYear

C24_Witness ==
  /\ last.op = "get"
  /\ last.find = <<ErrStorage>>
  /\ last.id \in DOMAIN payments
  /\ last.http.code = StatusInternalServerError

\* C25: a ProcessPayment call goes through assign id, call the bank, set the
\* status, Save, return, in that order: the id is set when the bank is
\* called; the bank is called once, and a failed call ends the ProcessPayment
\* call; Save is called only after the bank's decision and the status that
\* follows from it, and at most once.
C25_OneBankCallThenSave ==
  [][/\ \A t \in Threads :
          (call'[t] # call[t] /\ "post" \in {call[t].op, call'[t].op}) =>
            /\ <<call[t].pc, call'[t].pc>> \in
                 { <<"idle", "idle">>, <<"idle", "bank">>, <<"bank", "save">>, <<"bank", "idle">>,
                   <<"save", "locking">>, <<"locking", "saving">>, <<"saving", "idle">>,
                   <<"save", "idle">> }
            /\ call'[t].pc = "bank" =>
                 /\ call'[t].bank = <<>>
                 /\ call'[t].save = <<>>
                 /\ heap'[call'[t].ref].ID # EmptyID
                 /\ heap'[call'[t].ref].Status = StatusRejected
            /\ call'[t].pc \in {"save", "locking", "saving"} =>
                 /\ Len(call'[t].bank) = 1
                 /\ call'[t].bank[1].err = NoErr
                 /\ call'[t].save = <<>>
                 /\ heap'[call'[t].ref].Status =
                      (IF call'[t].bank[1].resp.Authorized THEN StatusAuthorized
                       ELSE StatusDeclined)
            /\ (call[t].pc = "bank" /\ call'[t].pc = "idle") =>
                 /\ Len(last'.bank) = 1
                 /\ last'.bank[1].err # NoErr
                 /\ last'.save = <<>>
            /\ (call[t].pc \in {"save", "saving"} /\ call'[t].pc = "idle") =>
                 /\ Len(last'.bank) = 1
                 /\ Len(last'.save) = 1
     /\ (last'.op = "post" /\ last'.ret # NoReturn) =>
          Len(last'.bank) = 1 /\ Len(last'.save) <= 1]_vars

C25_Witness ==
  /\ last.op = "post"
  /\ Len(last.bank) = 1
  /\ last.save = <<ErrStorage>>
  /\ \E t \in Threads : call[t].pc = "locking" /\ Len(call[t].bank) = 1

\* C26: the request the client sends to the bank has the payment's card
\* number, currency, amount and CVV as they are, and for a month in 1..12
\* and a year of four digits its expiry_date is seven characters: the month
\* in two digits, "/", the year in four.
C26_BankRequest ==
  last.op = "client" =>
    LET wire == last.bank[1].req
        given == last.arg
        Value(str) == IF Len(str) = 2 THEN 10 * DigitVal(str[1]) + DigitVal(str[2])
                      ELSE 1000 * DigitVal(str[1]) + 100 * DigitVal(str[2])
                           + 10 * DigitVal(str[3]) + DigitVal(str[4])
    IN
    /\ wire.CardNumber = given.Card.Number
    /\ wire.Currency = given.Currency
    /\ wire.Amount = given.Amount
    /\ wire.CVV = given.Card.CVV
    /\ (given.Card.ExpiryMonth \in 1..12 /\ given.Card.ExpiryYear \in 1000..9999) =>
         /\ Len(wire.ExpiryDate) = 7
         /\ wire.ExpiryDate[3] = "/"
         /\ \A i \in {1, 2, 4, 5, 6, 7} : wire.ExpiryDate[i] \in Digits
         /\ Value(SubSeq(wire.ExpiryDate, 1, 2)) = given.Card.ExpiryMonth
         /\ Value(SubSeq(wire.ExpiryDate, 4, 7)) = given.Card.ExpiryYear

C26_Witness ==
  /\ last.op = "client"
  /\ last.arg.Card.ExpiryMonth = 4
  /\ last.arg.Card.ExpiryYear = 2025
  /\ last.bank[1].req.ExpiryDate = <<"0", "4", "/", "2", "0", "2", "5">>
  /\ last.bank[1].req.CardNumber = CardA
  /\ last.bank[1].req.CVV = <<"1", "2", "3">>

\* C27: every key of the store is the ID of the record stored under it, also
\* after ProcessPayment calls on a payment that an earlier ProcessPayment
\* call has processed and saved.
C27_KeyIsRecordID ==
  \A id \in DOMAIN payments : heap[payments[id]].ID = id

\* C28: of the payment it is given, ProcessPayment changes the id and the
\* status only: when it has returned, after a bank failure, a storage failure
\* or a success, the card number, expiry month and year, CVV, currency and
\* amount are those of the validated payment the handler passed; after a bank
\* failure the status is still Rejected; on success the record returned is
\* the record saved.
C28_OnlyIDAndStatus ==
  (last.op = "post" /\ last.bank # <<>>) =>
    LET given == ToDomainPayment(last.arg, now).p
        after == heap[last.ref]
    IN
    /\ after.Card = given.Card
    /\ after.Currency = given.Currency
    /\ after.Amount = given.Amount
    /\ after = [given EXCEPT !.ID = after.ID, !.Status = after.Status]
    /\ last.bank[1].err # NoErr => after.Status = StatusRejected
    /\ last.ret.payment # Nil =>
         /\ last.ret.payment = last.ref
         /\ payments[after.ID] = last.ref

C28_Witness ==
  /\ last.op = "post"
  /\ last.arg.Currency = <<"u", "s", "d">>
  /\ last.bank # <<>>
  /\ last.bank[1].err # NoErr
  /\ heap[last.ref].ID = 2
  /\ heap[last.ref].Status = StatusRejected
  /\ heap[last.ref].Card.CVV = <<"4", "5", "6", "7">>

\* C29: under every interleaving of the POSTs, the ids in the store are the
\* ids of the calls that have returned success, each with a record of its
\* own, which FindByID finds under the id the call returned and which shows
\* what the call returned; the payment of a call that returned an error is
\* not in the store.
C29_NoLostUpdate ==
  /\ DOMAIN payments = DOMAIN received
  /\ \A id \in DOMAIN received :
       /\ FindByID(payments, id) # Nil
       /\ heap[FindByID(payments, id)].ID = id
       /\ FromDomainPayment(heap[FindByID(payments, id)]) = received[id]
  /\ \A i, j \in DOMAIN payments : i # j => payments[i] # payments[j]
  /\ \A o \in 1..Len(heap) :
       (\E t \in Threads : call[t].pc # "idle" /\ call[t].ref = o) =>
         \A id \in DOMAIN payments : payments[id] # o
  /\ (last.op = "post" /\ last.ret.err # NoErr) =>
       \A id \in DOMAIN payments : payments[id] # last.ref

\* The call that was given the first id returns after the call that was
\* given the second has stored its record.
C29_Witness ==
  /\ DOMAIN received = {1, 2}
  /\ last.op = "post"
  /\ last.save = <<NoErr>>
  /\ heap[last.ref].ID = 1

\* ---------------------------------------------------------- fair scheduling
\* The workload that matters to the store: payments that the bank authorises
\* are saved, and looked up by an id that is stored and by one that is not.
StoreRequests(t) ==
  { [malformed |-> FALSE, CardNumber |-> CardA, ExpiryMonth |-> 12, ExpiryYear |-> t.year + 1,
     Currency |-> <<"G", "B", "P">>, Amount |-> 100, CVV |-> <<"1", "2", "3">>] }

StoreReplies == {[kind |-> "http", code |-> StatusOK, body |-> BodyAuthorized, read |-> "ok"]}

StoreGetIDs == {1, MaxPayments + 1}

NextStore ==
  \/ \E t \in Threads, req \in StoreRequests(now) : PostHandler(t, req)
  \/ \E t \in Threads, reply \in StoreReplies : BankReturn(t, reply)
  \/ \E t \in Threads : SaveLock(t)
  \/ \E t \in Threads : SaveAcquire(t)
  \/ \E t \in Threads : SaveWrite(t)
  \/ \E t \in Threads, id \in StoreGetIDs : GetHandler(t, id)
  \/ \E t \in Threads : FindRLock(t)
  \/ \E t \in Threads : FindRead(t)

\* A goroutine that can take a step takes it (weak fairness); a goroutine
\* that waits for sync.RWMutex gets it if it is free again and again (strong
\* fairness): the mutex hands the lock over to the waiters in turn.
SpecFair ==
  /\ Init
  /\ [][NextStore]_vars
  /\ \A t \in Threads :
       /\ SF_vars(SaveLock(t))
       /\ WF_vars(SaveAcquire(t))
       /\ WF_vars(SaveWrite(t))
       /\ SF_vars(FindRLock(t))
       /\ WF_vars(FindRead(t))

\* C30: the lock is held exactly by the goroutines that are inside Save or
\* FindByID, so it is free when they have returned, found or not; while a
\* goroutine is in Save or FindByID, one of them can take a step; under fair
\* scheduling every Save and every FindByID that has been called returns.
C30_LockReleased ==
  /\ [](/\ mu.writer # 0 => call[mu.writer].pc = "saving"
        /\ \A t \in Threads :
             /\ call[t].pc = "saving" <=> mu.writer = t
             /\ call[t].pc = "locking" <=> t \in mu.pending
             /\ call[t].pc = "finding" <=> t \in mu.readers
        /\ (\E t \in Threads : call[t].pc \in {"save", "locking", "saving", "find", "finding"}) =>
             ENABLED (\E t \in Threads :
                        SaveLock(t) \/ SaveAcquire(t) \/ SaveWrite(t) \/ FindRLock(t) \/ FindRead(t)))
  /\ \A t \in Threads :
       /\ (call[t].pc \in {"save", "locking", "saving"})
            ~> (call[t].pc \notin {"save", "locking", "saving"})
       /\ (call[t].pc \in {"find", "finding"}) ~> (call[t].pc \notin {"find", "finding"})

C30_Witness ==
  /\ mu = [writer |-> 0, pending |-> {}, readers |-> {}]
  /\ last.op = "get"
  /\ last.find = <<NoErr>>
  /\ last.http.code = StatusNotFound
  /\ DOMAIN payments # {}
  /\ \E t \in Threads : call[t].pc = "save"

====
